---- MODULE Spec2Model ----
(***************************************************************************)
(* The ray tracer of src/src/raytracer.cpp (software-framebuffer variant,  *)
(* lines 654-1171): scene queries, recursive shading, and the tile-parallel*)
(* render into the in-memory framebuffer.                                  *)
(*                                                                         *)
(* Floats are fixed point in thousandths (1000 = 1.0f).  For rendering the *)
(* geometry is an oracle: rays fall into four classes and each primitive   *)
(* kind carries the table of what Object::intersect answers for each       *)
(* class.  The intersect functions themselves are computed in the geometry *)
(* kernel further down, on float values with infinities and NaN.           *)
(***************************************************************************)
EXTENDS Integers, Sequences, FiniteSets, TLC

VARIABLES
    objects,            \* std::vector<std::shared_ptr<Object>>
    lights,             \* std::vector<Light>
    maxDepth,           \* int
    enableShadows,      \* bool
    enableReflections,  \* bool
    debugShadowView,    \* bool
    width,              \* int
    height,             \* int
    frameBuffer,        \* std::vector<glm::vec3>, row-major
    framebufferDirty,   \* bool
    hwc,                \* what std::thread::hardware_concurrency() answers
    mainpc,             \* position of the GUI thread: idle / join / returned
    caller,             \* who called trace(): "trace" or "update"
    threads,            \* std::vector<std::thread> of the running trace()
    mtx,                \* std::mutex of the running trace(): 0 free, else owner
    writes,             \* history: for each pixel, the workers that wrote it in this trace()
    pre,                \* history: frameBuffer and dirty flag when trace() was entered
    shadowsOffOn,       \* history: setEnableShadows(false) then (true) has happened
    probe,              \* the last obj->intersect(ray) call: primitive, ray, answer
    texture,            \* framebufferTexture: whether it holds the frame buffer's contents
    planes,             \* MeshSlicer: std::vector<Plane>
    activeSlicePlane,   \* MeshSlicer: int
    line                \* the last Rasterizer::bresenhamLine call: endpoints, centre pixels

vars == <<objects, lights, maxDepth, enableShadows, enableReflections,
          debugShadowView, width, height, frameBuffer, framebufferDirty,
          hwc, mainpc, caller, threads, mtx, writes, pre, shadowsOffOn, probe,
          texture, planes, activeSlicePlane, line>>

sceneVars  == <<objects, lights>>
toolVars   == <<planes, activeSlicePlane, line>>
paramVars  == <<maxDepth, enableShadows, enableReflections, debugShadowView>>
frameVars  == <<width, height, frameBuffer, framebufferDirty>>
renderVars == <<mainpc, caller, threads, mtx, writes, pre>>

----------------------------------------------------------------------------
(* Bounds of the model *)

MaxWidth   == 2     \* image widths 0..MaxWidth
MaxHeight  == 2     \* image heights 0..MaxHeight
MaxHW      == 2     \* hardware_concurrency() answers 0..MaxHW
MaxObjects == 2     \* objects in a scene
MaxLights  == 2     \* lights in a scene
MaxDepthIn == 2     \* setMaxDepth arguments up to MaxDepthIn ...
NegDepths  == 1     \* ... and down to -NegDepths

(* Program constants *)

One      == 1000    \* 1.0f in thousandths
FltMax   == 1000000 \* std::numeric_limits<float>::max(), beyond every hit distance

Max(a, b) == IF a > b THEN a ELSE b
Abs(n)  == IF n < 0 THEN 0 - n ELSE n
Min(a, b) == IF a < b THEN a ELSE b

----------------------------------------------------------------------------
(* Colours: glm::vec3 in thousandths *)

Black      == <<0, 0, 0>>
Background == <<200, 200, 300>>
Magenta    == <<1000, 0, 1000>>

Mul(a, b)     == (a * b) \div One
Scale(s, c)   == <<Mul(s, c[1]), Mul(s, c[2]), Mul(s, c[3])>>
Add(c, d)     == <<c[1] + d[1], c[2] + d[2], c[3] + d[3]>>
Times(c, d)   == <<Mul(c[1], d[1]), Mul(c[2], d[2]), Mul(c[3], d[3])>>
Clamp1(v)     == Max(0, Min(One, v))
ClampNone(c)  == c
Clamp(c)      == <<Clamp1(c[1]), Clamp1(c[2]), Clamp1(c[3])>>

----------------------------------------------------------------------------
(* The geometry oracle.  A ray is one of four classes; Ray(o, d) of the    *)
(* source is the class its origin and direction fall in.  For each kind of *)
(* primitive the tables give what Object::intersect answers for a ray of   *)
(* each class: the hit distance in thousandths (0: hit stays false) and    *)
(* the class of the reflected ray leaving the hit point.  The hit point is *)
(* identified with the class of the ray that found it.                     *)

SphereDist   == <<5000, 3000, 0, 0>>
SphereBounce == <<2, 1, 1, 1>>
CubeDist     == <<5000, 0, 4000, 0>>
CubeBounce   == <<3, 1, 4, 1>>
MeshDist     == <<0, 7000, 0, 4000>>
MeshBounce   == <<1, 3, 1, 3>>

Rays  == DOMAIN SphereDist
Kinds == {"sphere", "cube", "mesh"}

DistOf(kind)   == CASE kind = "sphere" -> SphereDist
                    [] kind = "cube"   -> CubeDist
                    [] kind = "mesh"   -> MeshDist
BounceOf(kind) == CASE kind = "sphere" -> SphereBounce
                    [] kind = "cube"   -> CubeBounce
                    [] kind = "mesh"   -> MeshBounce

(* Material: colour and Phong coefficients, thousandths *)
Matte  == [color |-> <<1000, 0, 0>>, ambient |-> 100, diffuse |-> 700,
           specular |-> 500, shininess |-> 32000, reflectivity |-> 0]
Glossy == [color |-> <<700, 700, 700>>, ambient |-> 100, diffuse |-> 700,
           specular |-> 500, shininess |-> 32000, reflectivity |-> 200]
Mirror == [color |-> <<100, 100, 1000>>, ambient |-> 100, diffuse |-> 700,
           specular |-> 500, shininess |-> 32000, reflectivity |-> 1000]

Materials == {Matte, Glossy, Mirror}

(* Light: colour, intensity, and per hit point the class of the shadow ray *)
(* towards the light, the distance to the light, and the two cosines of    *)
(* the Phong terms (diff = max(N.L, 0), spec = pow(max(V.R, 0), shininess))*)
KeyLight  == [color |-> <<1000, 1000, 1000>>, intensity |-> 3000,
              sray |-> <<2, 4, 4, 2>>, dist |-> <<6000, 6000, 6000, 6000>>,
              diff |-> <<800, 500, 0, 300>>, spec |-> <<100, 0, 0, 0>>]
FillLight == [color |-> <<1000, 900, 800>>, intensity |-> 500,
              sray |-> <<2, 1, 3, 3>>, dist |-> <<7000, 2000, 5000, 5000>>,
              diff |-> <<200, 0, 600, 100>>, spec |-> <<0, 0, 300, 0>>]

LightLib == {KeyLight, FillLight}

(* Material() of raytracer.h *)
DefaultMaterial == [color |-> <<1000, 1000, 1000>>, ambient |-> 100, diffuse |-> 700,
                    specular |-> 500, shininess |-> 32000, reflectivity |-> 0]

(* RayHit() : hit(false), distance(numeric_limits<float>::max()); object   *)
(* is the position in the object list of the primitive hit, 0 for null     *)
RayHit == [hit |-> FALSE, distance |-> FltMax, point |-> 0, bounce |-> 0,
           material |-> DefaultMaterial, object |-> 0]

(* Object::intersect for the three kinds: obj is [kind, material] *)
intersect(obj, ray) ==
    IF DistOf(obj.kind)[ray] = 0
    THEN RayHit
    ELSE [hit |-> TRUE, distance |-> DistOf(obj.kind)[ray], point |-> ray,
          bounce |-> BounceOf(obj.kind)[ray], material |-> obj.material,
          object |-> 0]

----------------------------------------------------------------------------
(* Scene queries *)

(* the test of the scan, "hit.hit && hit.distance < closest.distance" *)
CloserOrEqual(hit, closest) == hit.hit /\ hit.distance <= closest.distance
Closer(hit, closest) == hit.hit /\ hit.distance < closest.distance

RECURSIVE ClosestFrom(_, _, _, _)
ClosestFrom(objs, ray, i, closest) ==
    IF i > Len(objs)
    THEN closest
    ELSE LET hit == intersect(objs[i], ray)
         IN  ClosestFrom(objs, ray, i + 1,
                         IF Closer(hit, closest)
                         THEN [hit EXCEPT !.object = i]
                         ELSE closest)

findClosestIntersection(ray) == ClosestFrom(objects, ray, 1, RayHit)

(* the test of the shadow scan, "hit.hit && hit.distance < dist" *)
OccludesAtLight(hit, dist) == hit.hit /\ hit.distance <= dist
Occludes(hit, dist) == hit.hit /\ hit.distance < dist

(* the scan of isInShadow: the first object with a hit nearer than the light *)
RECURSIVE BlockedFrom(_, _, _, _)
BlockedFrom(objs, shadowRay, dist, i) ==
    IF i > Len(objs)
    THEN FALSE
    ELSE LET hit == intersect(objs[i], shadowRay)
         IN  IF Occludes(hit, dist)
             THEN TRUE
             ELSE BlockedFrom(objs, shadowRay, dist, i + 1)

isInShadowAlways(point, light) ==
    BlockedFrom(objects, light.sray[point], light.dist[point], 1)
isInShadow(point, light) ==
    IF ~enableShadows
    THEN FALSE
    ELSE BlockedFrom(objects, light.sray[point], light.dist[point], 1)

(* the light loop of traceRay: ambient, then diffuse and specular of every *)
(* light the hit point is not shadowed from                                *)
RECURSIVE LightsFrom(_, _, _)
LightsFrom(hit, i, color) ==
    IF i > Len(lights)
    THEN color
    ELSE LET light == lights[i]
             diff == light.diff[hit.point]
             spec == light.spec[hit.point]
             diffuseColor ==
                 Scale(light.intensity,
                       Times(Scale(Mul(hit.material.diffuse, diff), hit.material.color),
                             light.color))
             specularColor ==
                 Scale(light.intensity,
                       Scale(Mul(hit.material.specular, spec), light.color))
         IN  LightsFrom(hit, i + 1,
                        IF isInShadow(hit.point, light)
                        THEN color
                        ELSE Add(color, Add(diffuseColor, specularColor)))

LocalColor(hit) ==
    LightsFrom(hit, 1, Scale(hit.material.ambient, hit.material.color))

(* color * (1 - reflectivity) + reflectionColor * reflectivity *)
BlendSwapped(color, reflectionColor, reflectivity) ==
    Add(Scale(reflectivity, color), Scale(One - reflectivity, reflectionColor))
Blend(color, reflectionColor, reflectivity) ==
    Add(Scale(One - reflectivity, color), Scale(reflectivity, reflectionColor))

----------------------------------------------------------------------------
(* Framebuffer *)

Zeros(n) == [k \in 1 .. n |-> Black]

(* std::vector::resize(n, vec3(0)): the first elements stay, new ones are 0 *)
Resized(fb, n) == [k \in 1 .. n |-> IF k <= Len(fb) THEN fb[k] ELSE Black]

InBoundsLoose(x, y) == ~(x < 0 \/ x > width \/ y < 0 \/ y > height)
InBounds(x, y) == ~(x < 0 \/ x >= width \/ y < 0 \/ y >= height)

(* setPixel: frameBuffer[y * width + x] = color (vectors here count from 1) *)
PixelIndex(x, y) == y * width + x + 1

(* what setPixel(x, y, color) makes of the frame buffer *)
setPixel(fb, x, y, color) ==
    IF InBounds(x, y) THEN [fb EXCEPT ![PixelIndex(x, y)] = color] ELSE fb

(* setupFramebuffer() and resize(): glTexImage2D(..., nullptr) allocates   *)
(* the texture without contents                                            *)
NoTexture == [uploaded |-> FALSE]

(* updateFramebuffer(): if (framebufferDirty) glTexSubImage2D(...,         *)
(* frameBuffer.data()) copies the frame buffer into the texture            *)
UploadedNever(tex) == tex
Uploaded(tex) == IF framebufferDirty THEN [tex EXCEPT !.uploaded = TRUE] ELSE tex

(* camera.generateRay(u, v) for the centre of pixel (x, y): the ray class *)
PrimaryRay(x, y) == ((y * width + x) % Len(SphereDist)) + 1

----------------------------------------------------------------------------
(* Construction and the mutators, called on the GUI thread between renders *)

Idle == mainpc = "idle"

(* no intersect call looked at yet *)
NoProbe == [kind |-> "none"]

(* the history variables outside a trace() call *)
NoSnapshot == [frameBuffer |-> <<>>, framebufferDirty |-> FALSE]

Sizes(k) == 0 .. k

InitRayTracer(w, h) ==
    /\ objects = <<>>
    /\ lights = <<>>
    /\ maxDepth = 3
    /\ enableShadows = TRUE
    /\ enableReflections = TRUE
    /\ debugShadowView = FALSE
    /\ width = w
    /\ height = h
    /\ frameBuffer = Zeros(w * h)
    /\ framebufferDirty = TRUE
    /\ mainpc = "idle"
    /\ caller = "trace"
    /\ threads = <<>>
    /\ mtx = 0
    /\ writes = <<>>
    /\ pre = NoSnapshot
    /\ shadowsOffOn = "never"
    /\ probe = NoProbe
    /\ texture = NoTexture

addObject(kind, mat) ==
    /\ Idle
    /\ Len(objects) < MaxObjects
    /\ objects' = Append(objects, [kind |-> kind, material |-> mat])
    /\ UNCHANGED <<lights, paramVars, frameVars, hwc, renderVars, shadowsOffOn, probe, texture, toolVars>>

addSphere == \E mat \in Materials : addObject("sphere", mat)
addCube   == \E mat \in Materials : addObject("cube", mat)
addMesh   == \E mat \in Materials : addObject("mesh", mat)

addLight ==
    /\ Idle
    /\ Len(lights) < MaxLights
    /\ \E l \in LightLib : lights' = Append(lights, l)
    /\ UNCHANGED <<objects, paramVars, frameVars, hwc, renderVars, shadowsOffOn, probe, texture, toolVars>>

clearLights ==
    /\ Idle
    /\ lights' = <<>>
    /\ UNCHANGED <<objects, paramVars, frameVars, hwc, renderVars, shadowsOffOn, probe, texture, toolVars>>

clearScene ==
    /\ Idle
    /\ objects' = <<>>
    /\ lights' = <<>>
    /\ UNCHANGED <<paramVars, frameVars, hwc, renderVars, shadowsOffOn, probe, texture, toolVars>>

setMaxDepth ==
    /\ Idle
    /\ \E depth \in (0 - NegDepths) .. MaxDepthIn : maxDepth' = depth
    /\ UNCHANGED <<sceneVars, enableShadows, enableReflections, debugShadowView,
                   frameVars, hwc, renderVars, shadowsOffOn, probe, texture, toolVars>>

setEnableShadows ==
    /\ Idle
    /\ \E enable \in BOOLEAN :
          /\ enableShadows' = enable
          /\ shadowsOffOn' = IF ~enable THEN "off"
                             ELSE IF shadowsOffOn = "off" THEN "offon"
                             ELSE shadowsOffOn
    /\ UNCHANGED <<sceneVars, maxDepth, enableReflections, debugShadowView,
                   frameVars, hwc, renderVars, probe, texture, toolVars>>

setEnableReflections ==
    /\ Idle
    /\ \E enable \in BOOLEAN : enableReflections' = enable
    /\ UNCHANGED <<sceneVars, maxDepth, enableShadows, debugShadowView,
                   frameVars, hwc, renderVars, shadowsOffOn, probe, texture, toolVars>>

resize ==
    /\ Idle
    /\ \E w \in Sizes(MaxWidth), h \in Sizes(MaxHeight) :
          /\ width' = w
          /\ height' = h
          /\ frameBuffer' = Resized(frameBuffer, w * h)
    /\ framebufferDirty' = TRUE
    /\ texture' = NoTexture
    /\ UNCHANGED <<sceneVars, paramVars, hwc, renderVars, shadowsOffOn, probe, toolVars>>

clear ==
    /\ Idle
    /\ \E color \in {Black, Background} :
          frameBuffer' = [k \in 1 .. Len(frameBuffer) |-> color]
    /\ framebufferDirty' = TRUE
    /\ texture' = [texture EXCEPT !.uploaded = FALSE]
    /\ UNCHANGED <<sceneVars, paramVars, width, height, hwc, renderVars, shadowsOffOn,
                   probe, toolVars>>

----------------------------------------------------------------------------
(* trace(): fan out one worker per row band, join them                     *)

(* if (objects.empty() || lights.empty()) return; *)
EmptySceneBoth == objects = <<>> /\ lights = <<>>
EmptyScene == objects = <<>> \/ lights = <<>>

(* numThreads = std::max(1u, std::thread::hardware_concurrency()) *)
numThreads == Max(1, hwc)

rowsPerThread == height \div numThreads

(* band of the i-th thread created, i = 1 .. numThreads (the source's i + 1) *)
BandStart(i) == (i - 1) * rowsPerThread
BandEndEven(i) == i * rowsPerThread
BandEndAll(i) == height
BandEnd(i) == IF i = numThreads THEN height ELSE i * rowsPerThread

(* traceRay(ray, depth) about to be entered for pixel (x, y) *)
CallForRowOfBand(t, x, y) ==
    [t EXCEPT !.x = x, !.y = y, !.pc = "call", !.ray = PrimaryRay(x, y - t.y0),
              !.depth = maxDepth, !.stack = <<>>, !.queries = 0]
CallFor(t, x, y) ==
    [t EXCEPT !.x = x, !.y = y, !.pc = "call", !.ray = PrimaryRay(x, y),
              !.depth = maxDepth, !.stack = <<>>, !.queries = 0]

(* the two for loops of trace_section, from (x, y) on: the next pixel of   *)
(* the band, or the end of the thread                                      *)
LoopFrom(t, x, y) ==
    IF y < t.y1 /\ width > 0
    THEN IF x < width
         THEN CallFor(t, x, y)
         ELSE IF y + 1 < t.y1
              THEN CallFor(t, 0, y + 1)
              ELSE [t EXCEPT !.pc = "done"]
    ELSE [t EXCEPT !.pc = "done"]

NewThread(y0, y1) ==
    [y0 |-> y0, y1 |-> y1, x |-> 0, y |-> y0, pc |-> "start", ray |-> 1,
     depth |-> 0, stack |-> <<>>, ret |-> Black, color |-> Black, queries |-> 0]

EnterTrace(who) ==
    /\ Idle
    /\ caller' = who
    /\ pre' = [frameBuffer |-> frameBuffer, framebufferDirty |-> framebufferDirty]
    /\ writes' = [k \in 1 .. Len(frameBuffer) |-> <<>>]
    /\ mtx' = 0
    /\ IF EmptyScene
       THEN /\ threads' = <<>>
            /\ mainpc' = "returned"
       ELSE /\ threads' = [i \in 1 .. numThreads |-> NewThread(BandStart(i), BandEnd(i))]
            /\ mainpc' = "join"
    /\ UNCHANGED <<sceneVars, paramVars, frameVars, hwc, shadowsOffOn, probe, texture, toolVars>>

(* raytracer->trace() of the mesh-load handler *)
trace == EnterTrace("trace")

(* update(): trace(); updateFramebuffer(); *)
update == EnterTrace("update")

(* a thread begins trace_section(y0, y1) *)
ThreadStart(i) ==
    /\ threads[i].pc = "start"
    /\ threads' = [threads EXCEPT ![i] = LoopFrom(threads[i], 0, threads[i].y0)]
    /\ UNCHANGED <<sceneVars, paramVars, frameVars, hwc, mainpc, caller, mtx,
                   writes, pre, shadowsOffOn, probe, texture, toolVars>>

(* if (depth <= 0) return glm::vec3(0.0f); *)
DepthExhaustedBelow(depth) == depth < 0
DepthExhausted(depth) == depth <= 0

(* traceRay(reflectionRay, depth - 1) *)
NextDepthSame(depth) == depth
NextDepth(depth) == depth - 1

(* if (enableReflections && reflectivity > 0.0f) *)
ReflectsAnyMaterial(hit) == enableReflections
Reflects(hit) == enableReflections /\ hit.material.reflectivity > 0

(* traceRay entered with (ray, depth): down to the recursive call or the return *)
TraceRayEnter(t) ==
    IF DepthExhausted(t.depth)
    THEN [t EXCEPT !.pc = "ret", !.ret = Black]
    ELSE LET hit == findClosestIntersection(t.ray)
             q == t.queries + 1
         IN  IF ~hit.hit
             THEN [t EXCEPT !.pc = "ret", !.ret = Background, !.queries = q]
             ELSE IF debugShadowView /\ lights # <<>> /\ isInShadow(hit.point, lights[1])
             THEN [t EXCEPT !.pc = "ret", !.ret = Magenta, !.queries = q]
             ELSE IF Reflects(hit)
             THEN [t EXCEPT !.pc = "call", !.ray = hit.bounce, !.depth = NextDepth(t.depth),
                            !.queries = q,
                            !.stack = Append(t.stack,
                                [depth |-> t.depth, color |-> LocalColor(hit),
                                 reflectivity |-> hit.material.reflectivity])]
             ELSE [t EXCEPT !.pc = "ret", !.ret = Clamp(LocalColor(hit)), !.queries = q]

(* a value comes back: to the blend of the calling traceRay, or to trace_section *)
TraceRayReturn(t) ==
    IF t.stack = <<>>
    THEN [t EXCEPT !.pc = "lock", !.color = t.ret]
    ELSE LET f == t.stack[Len(t.stack)]
         IN  [t EXCEPT !.stack = SubSeq(t.stack, 1, Len(t.stack) - 1),
                       !.depth = f.depth,
                       !.ret = Clamp(Blend(f.color, t.ret, f.reflectivity))]

(* traceRay(ray, depth) as a function of the scene and the settings: the   *)
(* colour it returns                                                       *)
RECURSIVE traceRay(_, _)
traceRay(ray, depth) ==
    IF DepthExhausted(depth)
    THEN Black
    ELSE LET hit == findClosestIntersection(ray)
         IN  IF ~hit.hit
             THEN Background
             ELSE IF debugShadowView /\ lights # <<>> /\ isInShadow(hit.point, lights[1])
             THEN Magenta
             ELSE IF Reflects(hit)
             THEN Clamp(Blend(LocalColor(hit), traceRay(hit.bounce, NextDepth(depth)),
                              hit.material.reflectivity))
             ELSE Clamp(LocalColor(hit))

ThreadCall(i) ==
    /\ threads[i].pc = "call"
    /\ threads' = [threads EXCEPT ![i] = TraceRayEnter(threads[i])]
    /\ UNCHANGED <<sceneVars, paramVars, frameVars, hwc, mainpc, caller, mtx,
                   writes, pre, shadowsOffOn, probe, texture, toolVars>>

ThreadReturn(i) ==
    /\ threads[i].pc = "ret"
    /\ threads' = [threads EXCEPT ![i] = TraceRayReturn(threads[i])]
    /\ UNCHANGED <<sceneVars, paramVars, frameVars, hwc, mainpc, caller, mtx,
                   writes, pre, shadowsOffOn, probe, texture, toolVars>>

(* std::lock_guard<std::mutex> lock(mtx) *)
LockFreeAlways == TRUE
LockFree == mtx = 0

ThreadLock(i) ==
    /\ threads[i].pc = "lock"
    /\ LockFree
    /\ mtx' = i
    /\ threads' = [threads EXCEPT ![i].pc = "write"]
    /\ UNCHANGED <<sceneVars, paramVars, frameVars, hwc, mainpc, caller,
                   writes, pre, shadowsOffOn, probe, texture, toolVars>>

(* setPixel(x, y, color); the lock_guard goes out of scope; ++x *)
ThreadWrite(i) ==
    LET t == threads[i]
    IN  /\ t.pc = "write"
        /\ frameBuffer' = setPixel(frameBuffer, t.x, t.y, t.color)
        /\ IF InBounds(t.x, t.y)
           THEN /\ framebufferDirty' = TRUE
                /\ texture' = [texture EXCEPT !.uploaded = FALSE]
                /\ writes' = [writes EXCEPT ![PixelIndex(t.x, t.y)] = Append(@, i)]
           ELSE UNCHANGED <<framebufferDirty, texture, writes>>
        /\ mtx' = 0
        /\ threads' = [threads EXCEPT ![i] = LoopFrom(t, t.x + 1, t.y)]
        /\ UNCHANGED <<sceneVars, paramVars, width, height, hwc, mainpc, caller,
                       pre, shadowsOffOn, probe, toolVars>>

(* for (auto& t : threads) t.join(); *)
JoinedAlways == TRUE
Joined == \A i \in DOMAIN threads : threads[i].pc = "done"

joinDroppingLights ==
    /\ mainpc = "join"
    /\ Joined
    /\ mainpc' = "returned"
    /\ lights' = <<>>
    /\ UNCHANGED <<objects, paramVars, frameVars, hwc, caller, threads, mtx,
                   writes, pre, shadowsOffOn, probe, texture, toolVars>>
join ==
    /\ mainpc = "join"
    /\ Joined
    /\ mainpc' = "returned"
    /\ UNCHANGED <<sceneVars, paramVars, frameVars, hwc, caller, threads, mtx,
                   writes, pre, shadowsOffOn, probe, texture, toolVars>>

(* trace() has returned: its threads vector is gone; update() goes on to   *)
(* updateFramebuffer()                                                     *)
afterTrace ==
    /\ mainpc = "returned"
    /\ mainpc' = "idle"
    /\ threads' = <<>>
    /\ framebufferDirty' = IF caller = "update" THEN FALSE ELSE framebufferDirty
    /\ texture' = IF caller = "update" THEN Uploaded(texture) ELSE texture
    /\ caller' = "trace"
    /\ writes' = <<>>
    /\ pre' = NoSnapshot
    /\ UNCHANGED <<sceneVars, paramVars, width, height, frameBuffer, hwc,
                   mtx, shadowsOffOn, probe, toolVars>>

(* render(): updateFramebuffer(); draw the quad with the texture bound *)
render ==
    /\ Idle
    /\ texture' = Uploaded(texture)
    /\ framebufferDirty' = FALSE
    /\ UNCHANGED <<sceneVars, paramVars, width, height, frameBuffer, hwc,
                   renderVars, shadowsOffOn, probe, toolVars>>

----------------------------------------------------------------------------
(* Rasterizer::bresenhamLine (src/unnamed/part_006).  An int has the       *)
(* values -(MaxInt + 1) .. MaxInt, and arithmetic that leaves them wraps   *)
(* around, as the code g++ generates does.  The call is followed for at    *)
(* most StepCap iterations of its while (true), more than a line between   *)
(* any two int endpoints needs.                                            *)

MaxInt == 7

Ints == (0 - (MaxInt + 1)) .. MaxInt

IntOf(v) == ((v + (MaxInt + 1)) % (2 * (MaxInt + 1))) - (MaxInt + 1)

StepCap == 2 * (MaxInt + 1)

(* no bresenhamLine call looked at *)
NoLine == [pc |-> "none"]

(* if (err2 > -dy) *)
StepsXAlways(err2, dy) == TRUE
StepsX(err2, dy) == err2 > IntOf(0 - dy)

(* if (err2 < dx) *)
StepsY(err2, dx) == err2 < dx

(* the iterations of while (true) from the centre pixel (x0, y0): the     *)
(* centre pixels set so far, and whether the loop has reached its break    *)
RECURSIVE LineFrom(_, _, _, _, _)
LineFrom(c, x0, y0, err, pixels) ==
    LET drawn == Append(pixels, <<x0, y0>>)
    IN  IF x0 = c.x1 /\ y0 = c.y1 THEN [pixels |-> drawn, ended |-> TRUE]
        ELSE IF Len(drawn) > StepCap THEN [pixels |-> drawn, ended |-> FALSE]
        ELSE LET err2 == IntOf(2 * err)
                 errX == IF StepsX(err2, c.dy) THEN IntOf(err - c.dy) ELSE err
                 x    == IF StepsX(err2, c.dy) THEN IntOf(x0 + c.sx) ELSE x0
                 errY == IF StepsY(err2, c.dx) THEN IntOf(errX + c.dx) ELSE errX
                 y    == IF StepsY(err2, c.dx) THEN IntOf(y0 + c.sy) ELSE y0
             IN  LineFrom(c, x, y, errY, drawn)

(* bresenhamLine(x0, y0, x1, y1): the centre pixels in the order set; the  *)
(* 9 x 9 block of pixels set around each is left out                       *)
bresenhamLine ==
    /\ line.pc = "call"
    /\ LET dx == IntOf(Abs(IntOf(line.x1 - line.x0)))
           dy == IntOf(Abs(IntOf(line.y1 - line.y0)))
           sx == IF line.x0 < line.x1 THEN 1 ELSE 0 - 1
           sy == IF line.y0 < line.y1 THEN 1 ELSE 0 - 1
           c  == [x1 |-> line.x1, y1 |-> line.y1, dx |-> dx, dy |-> dy,
                  sx |-> sx, sy |-> sy]
           run == LineFrom(c, line.x0, line.y0, IntOf(dx - dy), <<>>)
       IN  line' = [line EXCEPT !.pc = "returned", !.pixels = run.pixels,
                                !.ended = run.ended]
    /\ UNCHANGED <<sceneVars, paramVars, frameVars, hwc, renderVars, shadowsOffOn, probe,
                   texture, planes, activeSlicePlane>>

----------------------------------------------------------------------------
(* MeshSlicer (src/unnamed/part_000): the slicing planes and the index of  *)
(* the plane the GUI edits                                                 *)

MaxPlanes == 4

Plane(normal, distance) == [normal |-> normal, distance |-> distance]

(* the planes the GUI adds: XZ, YZ and XY through the origin *)
PlaneLib == {Plane(<<0, 1, 0>>, 0), Plane(<<1, 0, 0>>, 0), Plane(<<0, 0, 1>>, 0)}

(* MeshSlicer(Mesh* m): activeSlicePlane(0), one default horizontal plane *)
InitMeshSlicer ==
    /\ planes = <<Plane(<<0, 1, 0>>, 0)>>
    /\ activeSlicePlane = 0

(* the indexes a caller passes: one below and one above the valid ones *)
Indexes == (0 - 1) .. MaxPlanes

(* index >= 0 && index < planes.size() *)
ValidIndex(index) == index >= 0 /\ index < Len(planes)

(* planes.erase(planes.begin() + index) *)
Erased(seq, index) ==
    [k \in 1 .. Len(seq) - 1 |-> IF k <= index THEN seq[k] ELSE seq[k + 1]]

(* activeSlicePlane >= planes.size() compares as size_t: a negative int is *)
(* a huge unsigned value                                                   *)
AtOrPast(active, size) == active < 0 \/ active >= size

(* activeSlicePlane = planes.size() - 1: on an empty vector the size_t     *)
(* value is SIZE_MAX, which g++ converts to the int -1                     *)
LastIndex(size) == size - 1

addPlane ==
    /\ \E plane \in PlaneLib :
          planes' = IF Len(planes) < MaxPlanes THEN Append(planes, plane) ELSE planes
    /\ UNCHANGED activeSlicePlane
    /\ UNCHANGED <<sceneVars, paramVars, frameVars, hwc, renderVars, shadowsOffOn, probe,
                   texture, line>>

removePlane ==
    /\ \E index \in Indexes :
          IF ValidIndex(index)
          THEN /\ planes' = Erased(planes, index)
               /\ activeSlicePlane' =
                     IF AtOrPast(activeSlicePlane, Len(planes'))
                     THEN LastIndex(Len(planes'))
                     ELSE activeSlicePlane
          ELSE UNCHANGED <<planes, activeSlicePlane>>
    /\ UNCHANGED <<sceneVars, paramVars, frameVars, hwc, renderVars, shadowsOffOn, probe,
                   texture, line>>

updatePlane ==
    /\ \E index \in Indexes, plane \in PlaneLib :
          planes' = IF ValidIndex(index) THEN [planes EXCEPT ![index + 1] = plane]
                    ELSE planes
    /\ UNCHANGED activeSlicePlane
    /\ UNCHANGED <<sceneVars, paramVars, frameVars, hwc, renderVars, shadowsOffOn, probe,
                   texture, line>>

clearPlanes ==
    /\ planes' = <<>>
    /\ activeSlicePlane' = 0
    /\ UNCHANGED <<sceneVars, paramVars, frameVars, hwc, renderVars, shadowsOffOn, probe,
                   texture, line>>

(* setActivePlane(int index) { activeSlicePlane = index; } with the value  *)
(* of the GUI's "Active Plane" slider, 0 .. numPlanes - 1                  *)
setActivePlane ==
    /\ \E index \in 0 .. MaxPlanes - 1 : activeSlicePlane' = index
    /\ UNCHANGED planes
    /\ UNCHANGED <<sceneVars, paramVars, frameVars, hwc, renderVars, shadowsOffOn, probe,
                   texture, line>>

(* Specification of the mesh slicer: from the constructed slicer, every     *)
(* sequence of calls of its plane methods                                  *)

SlicerInit ==
    /\ hwc = 1
    /\ InitRayTracer(MaxWidth, MaxHeight)
    /\ InitMeshSlicer
    /\ line = NoLine

SlicerNext == addPlane \/ removePlane \/ updatePlane \/ clearPlanes \/ setActivePlane

SlicerSpec == SlicerInit /\ [][SlicerNext]_vars

----------------------------------------------------------------------------
(* Specification of the line rasterizer: a call of bresenhamLine with any  *)
(* four ints                                                               *)

RasterInit ==
    /\ hwc = 1
    /\ InitRayTracer(MaxWidth, MaxHeight)
    /\ InitMeshSlicer
    /\ \E x0 \in Ints, y0 \in Ints, x1 \in Ints, y1 \in Ints :
          line = [pc |-> "call", x0 |-> x0, y0 |-> y0, x1 |-> x1, y1 |-> y1,
                  pixels |-> <<>>, ended |-> FALSE]

RasterSpec == RasterInit /\ [][bresenhamLine]_vars

----------------------------------------------------------------------------
(* Specification of the scene and parameter mutators: from the constructed *)
(* ray tracer, every scene and setting within the bounds                   *)

ConfigInit ==
    /\ hwc = 1
    /\ InitRayTracer(MaxWidth, MaxHeight)
    /\ InitMeshSlicer
    /\ line = NoLine

ConfigNext ==
    \/ addSphere \/ addCube \/ addMesh \/ addLight \/ clearLights \/ clearScene
    \/ setMaxDepth \/ setEnableShadows \/ setEnableReflections

ConfigSpec == ConfigInit /\ [][ConfigNext]_vars

----------------------------------------------------------------------------
(* Specification of rendering.  It starts from a constructed ray tracer    *)
(* whose scene and maximum depth the mutators above have set (each choice  *)
(* below is a state ConfigSpec reaches), on a machine with some hardware   *)
(* concurrency, and follows the GUI thread and the workers of trace().     *)

Sphere(mat) == [kind |-> "sphere", material |-> mat]
Cube(mat)   == [kind |-> "cube", material |-> mat]
Mesh(mat)   == [kind |-> "mesh", material |-> mat]

SceneChoices == {<<>>, <<Sphere(Matte)>>, <<Cube(Mirror), Mesh(Mirror)>>}
LightChoices == {<<>>, <<KeyLight>>}
DepthChoices == {0 - NegDepths, 0, MaxDepthIn}

Init ==
    /\ hwc \in 0 .. MaxHW
    /\ objects \in SceneChoices
    /\ lights \in LightChoices
    /\ maxDepth \in DepthChoices
    /\ enableShadows = TRUE
    /\ enableReflections = TRUE
    /\ debugShadowView = FALSE
    /\ \E w \in 1 .. MaxWidth, h \in 1 .. MaxHeight :
          /\ width = w
          /\ height = h
          /\ frameBuffer = Zeros(w * h)
    /\ writes = <<>>
    /\ pre = NoSnapshot
    /\ framebufferDirty = TRUE
    /\ mainpc = "idle"
    /\ caller = "trace"
    /\ threads = <<>>
    /\ mtx = 0
    /\ shadowsOffOn = "never"
    /\ probe = NoProbe
    /\ texture = NoTexture
    /\ InitMeshSlicer
    /\ line = NoLine

Thread ==
    \E i \in DOMAIN threads :
        \/ ThreadStart(i)
        \/ ThreadCall(i)
        \/ ThreadReturn(i)
        \/ ThreadLock(i)
        \/ ThreadWrite(i)

Next ==
    \/ clearLights \/ clearScene \/ setEnableReflections
    \/ resize \/ clear
    \/ trace \/ update \/ render
    \/ Thread \/ join \/ afterTrace

Spec == Init /\ [][Next]_vars

(* The renders of the scenes, depths and image sizes of Init, one after    *)
(* another, with no mutator call in between.  The operating system goes on *)
(* running the threads that can run (some worker of a trace() in progress  *)
(* takes a step as long as one can), and the GUI thread blocked in join()  *)
(* goes on once the workers have ended.                                    *)
FairSpec ==
    /\ Init
    /\ [][trace \/ update \/ Thread \/ join \/ afterTrace]_vars
    /\ WF_vars(Thread)
    /\ WF_vars(join)

----------------------------------------------------------------------------
(* The geometry kernel: Sphere::intersect, Cube::intersect and             *)
(* MeshObject::intersect, computed as the code computes them on float      *)
(* values.  A float is <<"fin", n>>, <<"inf", 1>>, <<"inf", -1>> or        *)
(* <<"nan", 0>>.  Lengths and ray parameters t are in units of 0.0005      *)
(* (GeoOne is 1.0f), components of a direction are plain numbers, and      *)
(* barycentric coordinates are in thousandths.                             *)

MaxCoord == 6       \* ray origins have coordinates within -MaxCoord .. MaxCoord

GeoOne == 2 * One

Fin(n) == <<"fin", n>>
PosInf == <<"inf", 1>>
NegInf == <<"inf", -1>>
NaN    == <<"nan", 0>>
Zero   == Fin(0)

IsNaN(x) == x[1] = "nan"
IsInf(x) == x[1] = "inf"

Sign(n) == IF n > 0 THEN 1 ELSE IF n < 0 THEN 0 - 1 ELSE 0

(* where a float stands in the order of the finite values and infinities *)
InfKey == 1024 * FltMax
Key(x) == IF IsInf(x) THEN x[2] * InfKey ELSE x[2]

(* comparisons: false as soon as an operand is NaN *)
FLt(x, y) == ~IsNaN(x) /\ ~IsNaN(y) /\ Key(x) < Key(y)
FGt(x, y) == FLt(y, x)
FGe(x, y) == ~IsNaN(x) /\ ~IsNaN(y) /\ Key(x) >= Key(y)

FNeg(x) == IF IsNaN(x) THEN NaN ELSE <<x[1], 0 - x[2]>>
FAbs(x) == IF IsNaN(x) THEN NaN ELSE <<x[1], Abs(x[2])>>

FAdd(x, y) ==
    IF IsNaN(x) \/ IsNaN(y) THEN NaN
    ELSE IF IsInf(x) THEN (IF IsInf(y) /\ y[2] # x[2] THEN NaN ELSE x)
    ELSE IF IsInf(y) THEN y
    ELSE Fin(x[2] + y[2])

FSub(x, y) == FAdd(x, FNeg(y))

FMul(x, y) ==
    IF IsNaN(x) \/ IsNaN(y) THEN NaN
    ELSE IF IsInf(x) \/ IsInf(y)
         THEN (IF Sign(x[2]) * Sign(y[2]) = 0
               THEN NaN
               ELSE <<"inf", Sign(x[2]) * Sign(y[2])>>)
    ELSE Fin(x[2] * y[2])

(* x / y: 0/0 and inf/inf are NaN, x/0 is an infinity of the sign of x *)
FDiv(x, y) ==
    IF IsNaN(x) \/ IsNaN(y) THEN NaN
    ELSE IF IsInf(x)
         THEN (IF IsInf(y) THEN NaN ELSE <<"inf", x[2] * (IF y[2] < 0 THEN 0 - 1 ELSE 1)>>)
    ELSE IF IsInf(y) THEN Zero
    ELSE IF y[2] = 0
         THEN (IF x[2] = 0 THEN NaN ELSE <<"inf", Sign(x[2])>>)
    ELSE Fin(Sign(x[2]) * Sign(y[2]) * (Abs(x[2]) \div Abs(y[2])))

RECURSIVE SqrtBetween(_, _, _)
SqrtBetween(n, lo, hi) ==
    IF lo >= hi
    THEN lo
    ELSE LET mid == (lo + hi + 1) \div 2
         IN  IF mid * mid <= n
             THEN SqrtBetween(n, mid, hi)
             ELSE SqrtBetween(n, lo, mid - 1)

FSqrt(x) ==
    IF IsNaN(x) THEN NaN
    ELSE IF IsInf(x) THEN (IF x[2] > 0 THEN PosInf ELSE NaN)
    ELSE IF x[2] < 0 THEN NaN
    ELSE Fin(SqrtBetween(x[2], 0, Min(x[2], 46340)))

(* glm::vec3 *)
Vec(x, y, z) == <<Fin(x), Fin(y), Fin(z)>>
VAdd(a, b)   == <<FAdd(a[1], b[1]), FAdd(a[2], b[2]), FAdd(a[3], b[3])>>
VSub(a, b)   == <<FSub(a[1], b[1]), FSub(a[2], b[2]), FSub(a[3], b[3])>>
Dot(a, b)    == FAdd(FAdd(FMul(a[1], b[1]), FMul(a[2], b[2])), FMul(a[3], b[3]))
Cross(a, b)  == <<FSub(FMul(a[2], b[3]), FMul(a[3], b[2])),
                  FSub(FMul(a[3], b[1]), FMul(a[1], b[3])),
                  FSub(FMul(a[1], b[2]), FMul(a[2], b[1]))>>

(* glm::normalize, for the vectors of whole length used here: the zero     *)
(* vector becomes (NaN, NaN, NaN)                                          *)
normalize(v) ==
    LET len == FSqrt(Dot(v, v))
    IN  <<FDiv(v[1], len), FDiv(v[2], len), FDiv(v[3], len)>>

(* Ray(o, d) : origin(o), direction(glm::normalize(d)) *)
Ray(o, d) == [origin |-> o, direction |-> normalize(d)]

(* "x < 1e-5" for a direction component, an area term, a ray parameter *)
TinyDirection(x) == FLt(FMul(x, Fin(100000)), Fin(1))
TinyArea         == Fin((GeoOne * GeoOne) \div 100000)
TinyLength(x)    == FLt(FMul(x, Fin(100000)), Fin(GeoOne))

(* RayHit() as the primitives return it *)
GeoMiss == [hit |-> FALSE, distance |-> Fin(FltMax)]

(* Sphere::intersect; sphere is [position, radius] *)
Sphere_intersect(sphere, ray) ==
    LET oc == VSub(ray.origin, sphere.position)
        a  == Dot(ray.direction, ray.direction)
        b  == FMul(Fin(2), Dot(oc, ray.direction))
        c  == FSub(Dot(oc, oc), FMul(sphere.radius, sphere.radius))
        discriminant == FSub(FMul(b, b), FMul(Fin(4), FMul(a, c)))
        t1 == FDiv(FSub(FNeg(b), FSqrt(discriminant)), FMul(Fin(2), a))
        t2 == FDiv(FAdd(FNeg(b), FSqrt(discriminant)), FMul(Fin(2), a))
        t  == IF FGt(t1, Zero) THEN t1
              ELSE IF FGt(t2, Zero) THEN t2
              ELSE Fin(0 - GeoOne)
    IN  IF FGe(discriminant, Zero) /\ FGt(t, Zero)
        THEN [hit |-> TRUE, distance |-> t]
        ELSE GeoMiss

(* Cube::intersect, first loop: the slabs of axis i (the source's i + 1)   *)
(* on; acc is [tmin, tmax, hitAxis, hitPositive, miss]                     *)
RECURSIVE SlabsFrom(_, _, _, _, _, _)
SlabsFrom(localOrigin, localDirection, min, max, i, acc) ==
    IF i > 3 \/ acc.miss
    THEN acc
    ELSE IF TinyDirection(FAbs(localDirection[i]))
    THEN IF FLt(localOrigin[i], min[i]) \/ FGt(localOrigin[i], max[i])
         THEN [acc EXCEPT !.miss = TRUE]
         ELSE SlabsFrom(localOrigin, localDirection, min, max, i + 1, acc)
    ELSE LET ood == FDiv(Fin(1), localDirection[i])
             ta  == FMul(FSub(min[i], localOrigin[i]), ood)
             tb  == FMul(FSub(max[i], localOrigin[i]), ood)
             t1  == IF FGt(ta, tb) THEN tb ELSE ta
             t2  == IF FGt(ta, tb) THEN ta ELSE tb
             acc1 == IF FGt(t1, acc.tmin)
                     THEN [acc EXCEPT !.tmin = t1, !.hitAxis = i - 1,
                                      !.hitPositive = FLt(localDirection[i], Zero)]
                     ELSE acc
             acc2 == IF FLt(t2, acc1.tmax) THEN [acc1 EXCEPT !.tmax = t2] ELSE acc1
         IN  IF FGt(acc2.tmin, acc2.tmax)
             THEN [acc2 EXCEPT !.miss = TRUE]
             ELSE SlabsFrom(localOrigin, localDirection, min, max, i + 1, acc2)

(* Cube::intersect, second loop: the axis of the outgoing intersection; e  *)
(* is [maxT, hitAxis, hitPositive]                                         *)
RECURSIVE ExitAxisFrom(_, _, _, _, _, _)
ExitAxisFrom(localOrigin, localDirection, min, max, i, e) ==
    IF i > 3
    THEN e
    ELSE IF TinyDirection(FAbs(localDirection[i]))
    THEN ExitAxisFrom(localOrigin, localDirection, min, max, i + 1, e)
    ELSE LET ood == FDiv(Fin(1), localDirection[i])
             t   == FMul(IF FGt(localDirection[i], Zero)
                         THEN max[i]
                         ELSE FSub(min[i], localOrigin[i]), ood)
         IN  ExitAxisFrom(localOrigin, localDirection, min, max, i + 1,
                          IF FGt(t, e.maxT)
                          THEN [maxT |-> t, hitAxis |-> i - 1,
                                hitPositive |-> FLt(localDirection[i], Zero)]
                          ELSE e)

(* if (tmax < 0) return hit; // Both intersections behind the ray *)
BehindRayNever(tmax) == FALSE
BehindRay(tmax) == FLt(tmax, Zero)

(* Cube::intersect; cube is [position, size], its rotation the identity.   *)
(* The answer carries hitAxis, the index the normal is written at, and     *)
(* hitPositive, the sign written there.                                    *)
Cube_intersect(cube, ray) ==
    LET localOrigin    == VSub(ray.origin, cube.position)
        localDirection == ray.direction
        max == <<FDiv(cube.size[1], Fin(2)), FDiv(cube.size[2], Fin(2)),
                 FDiv(cube.size[3], Fin(2))>>
        min == <<FNeg(max[1]), FNeg(max[2]), FNeg(max[3])>>
        acc == SlabsFrom(localOrigin, localDirection, min, max, 1,
                         [tmin |-> NegInf, tmax |-> PosInf, hitAxis |-> 0 - 1,
                          hitPositive |-> FALSE, miss |-> FALSE])
        e   == ExitAxisFrom(localOrigin, localDirection, min, max, 1,
                            [maxT |-> NegInf, hitAxis |-> acc.hitAxis,
                             hitPositive |-> ~acc.hitPositive])
    IN  IF acc.miss
        THEN GeoMiss @@ [hitAxis |-> acc.hitAxis]
        ELSE IF FLt(acc.tmin, Zero)
        THEN IF BehindRay(acc.tmax)
             THEN GeoMiss @@ [hitAxis |-> acc.hitAxis]
             ELSE [hit |-> TRUE, distance |-> acc.tmax, hitAxis |-> e.hitAxis,
                   hitPositive |-> e.hitPositive]
        ELSE [hit |-> TRUE, distance |-> acc.tmin, hitAxis |-> acc.hitAxis,
              hitPositive |-> acc.hitPositive]

(* glm::reflect(I, N) = I - 2 * dot(N, I) * N *)
reflect(I, N) ==
    LET twice == FMul(Fin(2), Dot(N, I))
    IN  <<FSub(I[1], FMul(twice, N[1])), FSub(I[2], FMul(twice, N[2])),
          FSub(I[3], FMul(twice, N[3]))>>

(* a direction of unit length has components in fifths: (3, 0, -4) is      *)
(* (0.6, 0, -0.8)                                                          *)
Fifths == 5

(* 0.001f as a length *)
Nudge == GeoOne \div 1000

(* 0.001f * v for a direction v in fifths, as a vector of lengths *)
Nudged(v) ==
    <<FDiv(FMul(Fin(Nudge), v[1]), Fin(Fifths)), FDiv(FMul(Fin(Nudge), v[2]), Fin(Fifths)),
      FDiv(FMul(Fin(Nudge), v[3]), Fin(Fifths))>>

(* traceRay's reflection branch: the ray it goes on with, and the depth it *)
(* passes: Ray reflectionRay(hit.point + 0.001f * reflectDir, reflectDir); *)
(* traceRay(reflectionRay, depth - 1)                                      *)
reflectionRay(ray, hit, depth) ==
    LET reflectDir == reflect(ray.direction, hit.normal)
    IN  [origin |-> VAdd(hit.point, Nudged(reflectDir)), direction |-> reflectDir,
         depth |-> NextDepth(depth)]

(* if (t < 1e-5 || t > hit.distance) continue; *)
FartherNever(t, hit) == FALSE
Farther(t, hit) == FGt(t, hit.distance)

(* MeshObject::intersect, the body of the loop for one triangle: the hit   *)
(* so far, or the hit on this triangle                                     *)
TriangleStep(triangle, position, ray, hit) ==
    LET v0 == VAdd(triangle.v0, position)
        v1 == VAdd(triangle.v1, position)
        v2 == VAdd(triangle.v2, position)
        edge1 == VSub(v1, v0)
        edge2 == VSub(v2, v0)
        h == Cross(ray.direction, edge2)
        a == Dot(edge1, h)
        s == VSub(ray.origin, v0)
        u == FDiv(FMul(Fin(One), Dot(s, h)), a)
        q == Cross(s, edge1)
        v == FDiv(FMul(Fin(One), Dot(ray.direction, q)), a)
        t == FDiv(Dot(edge2, q), a)
    IN  IF FGt(a, FNeg(TinyArea)) /\ FLt(a, TinyArea) THEN hit
        ELSE IF FLt(u, Zero) \/ FGt(u, Fin(One)) THEN hit
        ELSE IF FLt(v, Zero) \/ FGt(FAdd(u, v), Fin(One)) THEN hit
        ELSE IF TinyLength(t) \/ Farther(t, hit) THEN hit
        ELSE [hit |-> TRUE, distance |-> t]

RECURSIVE TrianglesFrom(_, _, _, _, _)
TrianglesFrom(triangles, position, ray, i, hit) ==
    IF i > Len(triangles)
    THEN hit
    ELSE TrianglesFrom(triangles, position, ray, i + 1,
                       TriangleStep(triangles[i], position, ray, hit))

(* MeshObject::intersect; mesh is [position, triangles] *)
MeshObject_intersect(mesh, ray) ==
    TrianglesFrom(mesh.triangles, mesh.position, ray, 1, GeoMiss)

----------------------------------------------------------------------------
(* Specification of the geometry kernel: the scans of the scene call       *)
(* obj->intersect(ray) on a primitive with a ray.                          *)

Origin == Vec(0, 0, 0)
Coords == (0 - MaxCoord) .. MaxCoord

(* ray origins: on the z axis, and on a line beside it *)
Points == {Vec(x, 0, z) : x \in {0, MaxCoord - 1}, z \in Coords}

(* the six axis directions, and the zero vector *)
Directions == {Vec(1, 0, 0), Vec(0 - 1, 0, 0), Vec(0, 1, 0), Vec(0, 0 - 1, 0),
               Vec(0, 0, 1), Vec(0, 0, 0 - 1), Vec(0, 0, 0)}

(* rays as the constructor builds them, and rays whose public direction    *)
(* field was then set to the zero vector                                   *)
ProbeRays == {Ray(o, d) : o \in Points, d \in Directions}
             \cup {[origin |-> o, direction |-> Vec(0, 0, 0)] : o \in Points}

Spheres == {[position |-> Origin, radius |-> Fin(r)] : r \in {2, 4}}

Cubes == {[position |-> Origin, size |-> Vec(4, 4, 4)],
          [position |-> Origin, size |-> Vec(12, 2, 4)]}

(* a triangle in the plane z = const over the z axis, and a zero-area one *)
Tri(z)  == [v0 |-> Vec(0 - 2, 0 - 2, z), v1 |-> Vec(6, 0 - 2, z), v2 |-> Vec(0 - 2, 6, z)]
FlatTri == [v0 |-> Vec(0 - 2, 0 - 2, 1), v1 |-> Vec(6, 0 - 2, 1), v2 |-> Vec(14, 0 - 2, 1)]

Meshes == {[position |-> Origin, triangles |-> ts] :
              ts \in {<<>>, <<Tri(2)>>, <<Tri(2), Tri(4)>>, <<Tri(4), Tri(2)>>,
                      <<Tri(4), Tri(4)>>, <<FlatTri>>, <<FlatTri, Tri(4)>>}}

(* glm's operator[] asserts its index only in builds without NDEBUG, and   *)
(* writes outside the vector otherwise: localNormal[hitAxis] with hitAxis  *)
(* -1 aborts or goes on                                                    *)
Faults(answer) == IF answer.hit /\ answer.hitAxis = 0 - 1 THEN BOOLEAN ELSE {FALSE}

Probe(kind, shape, ray, answer, fault) ==
    /\ Idle
    /\ probe' = [kind |-> kind, shape |-> shape, ray |-> ray, answer |-> answer,
                 fault |-> fault]
    /\ UNCHANGED <<sceneVars, paramVars, frameVars, hwc, renderVars, shadowsOffOn,
                   texture, toolVars>>

SphereProbe ==
    \E sphere \in Spheres, ray \in ProbeRays :
        Probe("sphere", sphere, ray, Sphere_intersect(sphere, ray), FALSE)

CubeProbe ==
    \E cube \in Cubes, ray \in ProbeRays :
        \E fault \in Faults(Cube_intersect(cube, ray)) :
            Probe("cube", cube, ray, Cube_intersect(cube, ray), fault)

MeshProbe ==
    \E mesh \in Meshes, ray \in ProbeRays :
        Probe("mesh", mesh, ray, MeshObject_intersect(mesh, ray), FALSE)

(* rays of unit length arriving at a surface point, straight and slanted,  *)
(* and the normals of the surfaces they arrive at                          *)
Arriving == {Vec(0, 0, 0 - 5), Vec(3, 0, 0 - 4), Vec(0 - 4, 0, 0 - 3), Vec(0, 0 - 4, 3),
             Vec(0, 0 - 5, 0)}
Normals  == {Vec(0, 0, 1), Vec(0, 1, 0)}

ReflectProbe ==
    \E point \in Points, d \in Arriving, normal \in Normals, depth \in 1 .. MaxDepthIn :
        /\ FLt(Dot(normal, d), Zero)
        /\ LET ray == [origin |-> VSub(point, d), direction |-> d]
               hit == [hit |-> TRUE, point |-> point, normal |-> normal, depth |-> depth]
           IN  Probe("reflect", hit, ray, reflectionRay(ray, hit, depth), FALSE)

GeomInit ==
    /\ hwc = 1
    /\ InitRayTracer(MaxWidth, MaxHeight)
    /\ InitMeshSlicer
    /\ line = NoLine

GeomNext == SphereProbe \/ CubeProbe \/ MeshProbe \/ ReflectProbe

GeomSpec == GeomInit /\ [][GeomNext]_vars

----------------------------------------------------------------------------
(* Claims *)

Returned == mainpc = "returned"
NonEmptyScene == objects # <<>> /\ lights # <<>>
Pixels == 1 .. (width * height)

(* C1: when the object list or the light list is empty, trace() is a      *)
(* no-op: no worker is started and, where it returns, every framebuffer    *)
(* entry and the dirty flag are what they were when it was called.         *)
C1_EmptySceneNoOp ==
    (mainpc # "idle" /\ (objects = <<>> \/ lights = <<>>)) =>
        /\ Returned
        /\ threads = <<>>
        /\ \A k \in DOMAIN writes : writes[k] = <<>>
        /\ frameBuffer = pre.frameBuffer
        /\ framebufferDirty = pre.framebufferDirty

(* trace() returned at once on a scene with objects but no light, over an  *)
(* image a previous render had filled                                      *)
C1_Witness ==
    /\ Returned
    /\ objects # <<>>
    /\ lights = <<>>
    /\ \E k \in DOMAIN frameBuffer : frameBuffer[k] # Black
    /\ framebufferDirty = FALSE

(* C2: for a scene with an object and a light and an image at least 1x1,   *)
(* where trace() returns every pixel has been written exactly once in that *)
(* call, by one worker, whatever the interleaving of the workers.          *)
C2_EveryPixelOnce ==
    (Returned /\ NonEmptyScene /\ width >= 1 /\ height >= 1) =>
        /\ DOMAIN writes = Pixels
        /\ \A k \in Pixels : Len(writes[k]) = 1

(* two workers have each written their own part of a 2x2 image *)
C2_Witness ==
    /\ Returned
    /\ width = 2
    /\ height = 2
    /\ \E k1, k2 \in DOMAIN writes : writes[k1] = <<1>> /\ writes[k2] = <<2>>

(* C3: the bands of the workers of trace() are N = max(1,                  *)
(* hardware_concurrency) contiguous row ranges [y0, y1), pairwise disjoint,*)
(* whose union is [0, height): band i is [i*(height/N), (i+1)*(height/N))  *)
(* and the last band ends at height, also when height < N or N does not    *)
(* divide height.                                                          *)
C3_BandsPartitionRows ==
    (threads # <<>>) =>
        LET N == Len(threads)
            rows == height \div N
        IN  /\ N = (IF hwc >= 1 THEN hwc ELSE 1)
            /\ \A i \in 1 .. N :
                  /\ threads[i].y0 = (i - 1) * rows
                  /\ threads[i].y1 = (IF i = N THEN height ELSE i * rows)
                  /\ threads[i].y0 <= threads[i].y1
                  /\ i < N => threads[i].y1 = threads[i + 1].y0
            /\ threads[1].y0 = 0
            /\ threads[N].y1 = height
            /\ \A row \in 0 .. (height - 1) :
                  Cardinality({i \in 1 .. N :
                      threads[i].y0 <= row /\ row < threads[i].y1}) = 1

(* two bands over a height the thread count does not divide, which is also *)
(* a height below the thread count: the first band is empty                *)
C3_Witness ==
    /\ mainpc = "join"
    /\ Len(threads) = 2
    /\ height = 1
    /\ threads[1].y0 = threads[1].y1
    /\ threads[2].y1 - threads[2].y0 = 1

(* C4: at most one worker at a time is inside the mutex-guarded write      *)
(* section (setPixel).                                                     *)
C4_MutualExclusion ==
    \A i, j \in DOMAIN threads :
        (threads[i].pc = "write" /\ threads[j].pc = "write") => i = j

(* one worker holds the mutex while another waits for it *)
C4_Witness ==
    \E i, j \in DOMAIN threads :
        /\ threads[i].pc = "write"
        /\ mtx = i
        /\ threads[j].pc = "lock"

(* C5: trace() has returned, and updateFramebuffer (run by update() after  *)
(* trace() and by render()) reads the framebuffer, only when every worker  *)
(* of that trace() has terminated.                                         *)
C5_JoinBeforeReturn ==
    (mainpc \in {"idle", "returned"}) =>
        \A i \in DOMAIN threads : threads[i].pc = "done"

(* update() is about to upload after a render by two workers *)
C5_Witness ==
    /\ Returned
    /\ caller = "update"
    /\ Len(threads) = 2
    /\ \E k \in DOMAIN writes : writes[k] = <<2>>

(* C6: where trace() returns after running the bands of a scene with an    *)
(* object and a light, the dirty flag is true.                             *)
C6_DirtyAtReturn ==
    (Returned /\ NonEmptyScene) => framebufferDirty = TRUE

C8_RenderCompletes ==
    /\ [](\A i \in DOMAIN threads :
             threads[i].queries <= (IF maxDepth > 0 THEN maxDepth ELSE 0))
    /\ (mainpc = "join") ~>
          (Returned /\ \A i \in DOMAIN threads : threads[i].pc = "done")

(* between two mirrors of reflectivity 1 the chain used all maxDepth       *)
(* queries and came back                                                   *)
C8_Witness ==
    \E i \in DOMAIN threads :
        /\ threads[i].pc = "lock"
        /\ maxDepth >= 2
        /\ threads[i].queries = maxDepth
        /\ \A k \in DOMAIN objects : objects[k].material.reflectivity = One

Hits(ray) == {i \in DOMAIN objects : intersect(objects[i], ray).hit}
DistAt(i, ray) == intersect(objects[i], ray).distance

(* C9: findClosestIntersection(ray) returns the hit of smallest distance   *)
(* among the objects hit, the first inserted among those at that distance, *)
(* and hit = false with the distance at its maximum sentinel when no       *)
(* object is hit or the scene is empty.                                    *)
C9_ClosestFirstWins ==
    \A ray \in Rays :
        LET r == findClosestIntersection(ray)
        IN  IF Hits(ray) = {}
            THEN ~r.hit /\ r.distance = FltMax /\ r.object = 0
            ELSE /\ r.hit
                 /\ r.object \in Hits(ray)
                 /\ r.distance = DistAt(r.object, ray)
                 /\ r.material = objects[r.object].material
                 /\ \A j \in Hits(ray) :
                       /\ r.distance <= DistAt(j, ray)
                       /\ DistAt(j, ray) = r.distance => r.object <= j

(* two objects at exactly the same distance along a ray, the second of a   *)
(* different material                                                      *)
C9_Witness ==
    \E ray \in Rays :
        /\ Len(objects) = 2
        /\ Hits(ray) = {1, 2}
        /\ DistAt(1, ray) = DistAt(2, ray)
        /\ objects[1].material # objects[2].material
        /\ findClosestIntersection(ray).object = 1

Occluded(point, light) ==
    \E i \in DOMAIN objects :
        /\ intersect(objects[i], light.sray[point]).hit
        /\ intersect(objects[i], light.sray[point]).distance < light.dist[point]

(* C10: while shadows are disabled isInShadow is false for every point,    *)
(* light and set of occluders; while they are enabled, also after          *)
(* setEnableShadows(false) then setEnableShadows(true), it is the          *)
(* occlusion of the point from the light, whatever the flag was before.    *)
C10_ShadowToggle ==
    \A point \in Rays, light \in LightLib :
        /\ ~enableShadows => ~isInShadow(point, light)
        /\ enableShadows => (isInShadow(point, light) <=> Occluded(point, light))

(* shadows were disabled and enabled again, and a point is occluded *)
C10_Witness ==
    /\ shadowsOffOn = "offon"
    /\ enableShadows
    /\ \E point \in Rays, light \in LightLib :
          isInShadow(point, light) /\ Occluded(point, light)

(* C11: with shadows enabled, isInShadow(point, light) is true exactly     *)
(* when the closest hit of the shadow ray over the whole scene is nearer   *)
(* than the light: the early-exit scan and the closest-hit query give the  *)
(* same boolean for every scene, and a closest hit at exactly the distance *)
(* of the light does not occlude.                                          *)
C11_ShadowIsClosestHit ==
    enableShadows =>
        \A point \in Rays, light \in LightLib :
            LET shadowHit == findClosestIntersection(light.sray[point])
            IN  /\ isInShadow(point, light) <=>
                      (shadowHit.hit /\ shadowHit.distance < light.dist[point])
                /\ (shadowHit.hit /\ shadowHit.distance = light.dist[point]) =>
                      ~isInShadow(point, light)

(* shadows are enabled and the only object on the shadow ray is hit at     *)
(* exactly the distance of the light: the point is lit                     *)
C11_Witness ==
    /\ enableShadows
    /\ objects # <<>>
    /\ \E point \in Rays, light \in LightLib :
          /\ findClosestIntersection(light.sray[point]).hit
          /\ findClosestIntersection(light.sray[point]).distance = light.dist[point]
          /\ ~isInShadow(point, light)

(* C12: a traceRay that goes past the depth test makes its recursive call  *)
(* only when reflections are enabled and the material hit has reflectivity *)
(* above 0; on a hit of reflectivity 0, or with reflections disabled, it   *)
(* returns the clamped local shading after its one query, without a call.  *)
C12_RecursesOnlyWhenReflective ==
    [][\A i \in DOMAIN threads :
          (/\ threads[i].pc = "call"
           /\ threads[i].depth > 0
           /\ i \in DOMAIN threads'
           /\ threads'[i] # threads[i]) =>
              LET hit == findClosestIntersection(threads[i].ray)
                  recursive == Len(threads'[i].stack) > Len(threads[i].stack)
              IN  /\ recursive =>
                        (enableReflections /\ hit.hit /\ hit.material.reflectivity > 0)
                  /\ (hit.hit /\ (~enableReflections \/ hit.material.reflectivity = 0)) =>
                        /\ ~recursive
                        /\ threads'[i].pc = "ret"
                        /\ threads'[i].stack = threads[i].stack
                        /\ threads'[i].queries = threads[i].queries + 1
                        /\ threads'[i].ret = Clamp(LocalColor(hit))
      ]_vars

(* with reflections disabled a primary ray hit a mirror and the local      *)
(* shading of the mirror came back after one query                         *)
C12_Witness ==
    \E i \in DOMAIN threads :
        /\ ~enableReflections
        /\ threads[i].pc = "ret"
        /\ threads[i].depth > 0
        /\ threads[i].stack = <<>>
        /\ threads[i].queries = 1
        /\ findClosestIntersection(threads[i].ray).hit
        /\ findClosestIntersection(threads[i].ray).material.reflectivity > 0
        /\ threads[i].ret = Clamp(LocalColor(findClosestIntersection(threads[i].ray)))

InUnitRange(c) == \A k \in 1 .. 3 : 0 <= c[k] /\ c[k] <= One

C16_MaxDepthNeverNegative == maxDepth >= 0

(* C17: after any sequence of resize(w, h) calls, also with the 0 x 0 of a *)
(* minimised window, the stored width and height are both at least 1.      *)
C17_DimensionsPositive == width >= 1 /\ height >= 1

Probed(kind) == probe.kind = kind

(* the ray's direction is one of the six unit vectors *)
UnitDirection(ray) == ray.direction \in Directions \ {Vec(0, 0, 0)}

(* the ray was built from a zero-length direction, or its direction is the *)
(* zero vector (a = dot(direction, direction) = 0)                         *)
DegenerateRay(ray) == ray.direction \in {<<NaN, NaN, NaN>>, Vec(0, 0, 0)}

ZeroArea(triangle) ==
    Cross(VSub(triangle.v1, triangle.v0), VSub(triangle.v2, triangle.v0)) = Vec(0, 0, 0)

(* C15: degenerate input is answered with a miss, never with a hit or a    *)
(* fault: for a ray built from a zero-length direction, a ray whose        *)
(* direction is zero, or a mesh of zero-area triangles, intersect returns  *)
(* hit = false; Cube::intersect does not report a hit with hitAxis at -1.  *)
C15_DegenerateIsMiss ==
    (/\ ~Probed("none")
     /\ \/ DegenerateRay(probe.ray)
        \/ /\ Probed("mesh")
           /\ probe.shape.triangles # <<>>
           /\ \A k \in DOMAIN probe.shape.triangles : ZeroArea(probe.shape.triangles[k])) =>
        /\ ~probe.answer.hit
        /\ ~probe.fault
        /\ Probed("cube") => ~(probe.answer.hit /\ probe.answer.hitAxis = 0 - 1)

(* the ray's origin is strictly inside the cube *)
StrictlyInside(cube, o) ==
    \A k \in 1 .. 3 :
        /\ FLt(FNeg(FDiv(cube.size[k], Fin(2))), FSub(o[k], cube.position[k]))
        /\ FLt(FSub(o[k], cube.position[k]), FDiv(cube.size[k], Fin(2)))

(* along a unit direction from inside, the distance to the face ahead *)
ExitDistance(cube, ray) ==
    LET k == CHOOSE j \in 1 .. 3 : ray.direction[j] # Zero
        lo == FSub(ray.origin[k], cube.position[k])
        half == FDiv(cube.size[k], Fin(2))
    IN  IF FGt(ray.direction[k], Zero) THEN FSub(half, lo) ELSE FAdd(half, lo)

(* C18: for a ray whose origin is strictly inside a box the intersection   *)
(* reports a hit at the exit distance tMax; and whenever it reports a hit  *)
(* the distance is not negative: a box wholly behind the ray is a miss.    *)
C18_BoxExitNeverBehind ==
    Probed("cube") =>
        /\ (UnitDirection(probe.ray) /\ StrictlyInside(probe.shape, probe.ray.origin)) =>
              /\ probe.answer.hit
              /\ probe.answer.distance = ExitDistance(probe.shape, probe.ray)
              /\ FGt(probe.answer.distance, Zero)
        /\ probe.answer.hit => FGe(probe.answer.distance, Zero)

(* a ray from strictly inside a cube, off its centre, was answered with    *)
(* the distance to the face ahead                                          *)
C18_Witness ==
    /\ Probed("cube")
    /\ UnitDirection(probe.ray)
    /\ StrictlyInside(probe.shape, probe.ray.origin)
    /\ probe.ray.origin # Origin
    /\ probe.answer.hit
    /\ probe.answer.distance = ExitDistance(probe.shape, probe.ray)

(* 0.001f as a length *)
Epsilon == GeoOne \div 1000

(* C19: Sphere::intersect picks its root with the guard epsilon = 0.001:   *)
(* the smaller root t1 when t1 >= epsilon, else the larger root t2 when    *)
(* t2 >= epsilon, else a miss; so no hit has a distance below 0.001.       *)
C19_SphereEpsilonGuard ==
    (Probed("sphere") /\ UnitDirection(probe.ray)) =>
        LET oc == VSub(probe.ray.origin, probe.shape.position)
            b  == FMul(Fin(2), Dot(oc, probe.ray.direction))
            c  == FSub(Dot(oc, oc), FMul(probe.shape.radius, probe.shape.radius))
            discriminant == FSub(FMul(b, b), FMul(Fin(4), c))
            t1 == FDiv(FSub(FNeg(b), FSqrt(discriminant)), Fin(2))
            t2 == FDiv(FAdd(FNeg(b), FSqrt(discriminant)), Fin(2))
        IN  /\ IF FLt(discriminant, Zero) THEN ~probe.answer.hit
               ELSE IF FGe(t1, Fin(Epsilon))
                    THEN probe.answer.hit /\ probe.answer.distance = t1
               ELSE IF FGe(t2, Fin(Epsilon))
                    THEN probe.answer.hit /\ probe.answer.distance = t2
               ELSE ~probe.answer.hit
            /\ probe.answer.hit => FGe(probe.answer.distance, Fin(Epsilon))

(* what one triangle alone answers: its valid intersection, if any *)
Alone(mesh, k, ray) == TriangleStep(mesh.triangles[k], mesh.position, ray, GeoMiss)
Valid(mesh, ray) == {k \in DOMAIN mesh.triangles : Alone(mesh, k, ray).hit}

Reversed(seq) == [k \in 1 .. Len(seq) |-> seq[Len(seq) + 1 - k]]

(* C20: MeshObject::intersect reports a hit exactly when one of its        *)
(* triangles has a valid intersection, then at the least distance of the   *)
(* valid intersections of its triangles, and the same whatever the order   *)
(* the triangles are stored in.                                            *)
C20_MeshMinimumAnyOrder ==
    (Probed("mesh") /\ UnitDirection(probe.ray)) =>
        /\ probe.answer.hit <=> Valid(probe.shape, probe.ray) # {}
        /\ probe.answer.hit =>
              /\ \E k \in Valid(probe.shape, probe.ray) :
                    probe.answer.distance = Alone(probe.shape, k, probe.ray).distance
              /\ \A k \in Valid(probe.shape, probe.ray) :
                    FGe(Alone(probe.shape, k, probe.ray).distance, probe.answer.distance)
        /\ MeshObject_intersect([probe.shape EXCEPT !.triangles = Reversed(@)], probe.ray)
              = probe.answer

(* a ray crosses both triangles of a mesh, the nearer one stored first:    *)
(* the farther one, looked at later, did not replace it                    *)
C20_Witness ==
    /\ Probed("mesh")
    /\ UnitDirection(probe.ray)
    /\ Valid(probe.shape, probe.ray) = {1, 2}
    /\ FLt(Alone(probe.shape, 1, probe.ray).distance, Alone(probe.shape, 2, probe.ray).distance)
    /\ probe.answer.hit
    /\ probe.answer.distance = Alone(probe.shape, 1, probe.ray).distance

----------------------------------------------------------------------------
(* C22: the mesh slicer always holds between 1 and 4 planes, after its     *)
(* construction and after any sequence of addPlane, removePlane,           *)
(* updatePlane and clearPlanes calls.                                      *)
C22_PlaneCountOneToFour ==
    /\ Len(planes) >= 1
    /\ Len(planes) <= MaxPlanes

----------------------------------------------------------------------------
(* C30: the index of the active slicing plane is never negative, after any *)
(* sequence of addPlane, removePlane and clearPlanes calls (and of         *)
(* setActivePlane calls with an index of the GUI's slider).                *)
C30_ActivePlaneNeverNegative == activeSlicePlane >= 0

----------------------------------------------------------------------------
(* the bresenhamLine call looked at has returned, or was abandoned after   *)
(* StepCap iterations                                                      *)
LineDrawn == line.pc = "returned"

(* max(|x1 - x0|, |y1 - y0|) *)
Span == Max(Abs(line.x1 - line.x0), Abs(line.y1 - line.y0))

ByOne(p, q) == Abs(q[1] - p[1]) <= 1 /\ Abs(q[2] - p[2]) <= 1

(* the loop ended after exactly Span steps, from (x0, y0) to (x1, y1), by  *)
(* at most one pixel in x and in y at each step                            *)
LineAsClaimed ==
    /\ line.ended
    /\ Len(line.pixels) = Span + 1
    /\ line.pixels[1] = <<line.x0, line.y0>>
    /\ line.pixels[Len(line.pixels)] = <<line.x1, line.y1>>
    /\ \A k \in 1 .. Len(line.pixels) - 1 : ByOne(line.pixels[k], line.pixels[k + 1])

InRange == 2 * Abs(line.x1 - line.x0) <= MaxInt /\ 2 * Abs(line.y1 - line.y0) <= MaxInt

----------------------------------------------------------------------------
(* 0.001f * N for a normal N of whole components *)
AlongNormal(normal) ==
    <<FMul(Fin(Nudge), normal[1]), FMul(Fin(Nudge), normal[2]), FMul(Fin(Nudge), normal[3])>>

(* C24: the reflected ray starts at hit.point + 0.001 * N, N the normal at *)
(* the hit, and is traced at depth - 1.                                    *)
C24_ReflectionStartsAlongNormal ==
    Probed("reflect") =>
        /\ probe.answer.origin = VAdd(probe.shape.point, AlongNormal(probe.shape.normal))
        /\ probe.answer.depth = probe.shape.depth - 1

----------------------------------------------------------------------------
(* 1 / (1 + 0.09 d + 0.032 d^2) for a distance d, both in thousandths *)
Attenuation(d) ==
    (One * One) \div (One + (90 * d) \div One + (32 * d * d) \div (One * One))

(* ambient, then for every light the hit point is not shadowed from its    *)
(* diffuse and specular terms times the attenuation over the distance to   *)
(* the light                                                               *)
RECURSIVE AttenuatedFrom(_, _, _)
AttenuatedFrom(hit, i, color) ==
    IF i > Len(lights)
    THEN color
    ELSE LET light == lights[i]
             diffuseColor ==
                 Scale(light.intensity,
                       Times(Scale(Mul(hit.material.diffuse, light.diff[hit.point]),
                                   hit.material.color),
                             light.color))
             specularColor ==
                 Scale(light.intensity,
                       Scale(Mul(hit.material.specular, light.spec[hit.point]), light.color))
         IN  AttenuatedFrom(hit, i + 1,
                            IF isInShadow(hit.point, light)
                            THEN color
                            ELSE Add(color, Scale(Attenuation(light.dist[hit.point]),
                                                  Add(diffuseColor, specularColor))))

(* C25: the local colour at a hit is the unattenuated ambient term plus,   *)
(* for every light the point is not shadowed from, diffuse + specular      *)
(* multiplied by the attenuation 1 / (1 + 0.09 d + 0.032 d^2).             *)
C25_LightsAttenuated ==
    \A ray \in Rays :
        LET hit == findClosestIntersection(ray)
        IN  hit.hit =>
              LocalColor(hit)
                = AttenuatedFrom(hit, 1, Scale(hit.material.ambient, hit.material.color))

----------------------------------------------------------------------------
(* localNormal(0.0f); localNormal[hitAxis] = hitPositive ? 1.0f : -1.0f *)
LocalNormal(answer) ==
    [i \in 1 .. 3 |-> IF i = answer.hitAxis + 1
                      THEN IF answer.hitPositive THEN Fin(1) ELSE Fin(0 - 1)
                      ELSE Zero]

(* the outward normal of the face of the cube that a ray along an axis    *)
(* meets at parameter t: along the ray's axis, pointing to the side of the *)
(* centre the meeting point is on                                          *)
OutwardNormal(cube, ray, t) ==
    [i \in 1 .. 3 |->
        IF ray.direction[i] = Zero
        THEN Zero
        ELSE LET p == FSub(FAdd(ray.origin[i], FMul(t, ray.direction[i])), cube.position[i])
             IN  IF FGt(p, Zero) THEN Fin(1) ELSE Fin(0 - 1)]

(* C26: the normal of a box hit is the outward normal of the face hit,     *)
(* both when the ray enters the box and when the intersection is taken     *)
(* from inside it.                                                         *)
C26_BoxNormalOutward ==
    (Probed("cube") /\ UnitDirection(probe.ray) /\ probe.answer.hit) =>
        LocalNormal(probe.answer) = OutwardNormal(probe.shape, probe.ray, probe.answer.distance)

----------------------------------------------------------------------------
(* C27: frameBuffer.size() is width * height after construction and after  *)
(* any sequence of resize, clear, setPixel and trace; the index            *)
(* y * width + x that setPixel writes is within the vector, and a setPixel *)
(* call with x or y out of range leaves the frame buffer as it is.         *)
C27_FrameBufferSized ==
    /\ Len(frameBuffer) = width * height
    /\ \A x \in (0 - 1) .. MaxWidth, y \in (0 - 1) .. MaxHeight :
          IF InBounds(x, y)
          THEN PixelIndex(x, y) \in DOMAIN frameBuffer
          ELSE setPixel(frameBuffer, x, y, Magenta) = frameBuffer
    /\ \A k \in DOMAIN writes : writes[k] # <<>> => k \in DOMAIN frameBuffer

(* a worker of a trace() in progress has written the last element of a     *)
(* frame buffer of the largest size                                        *)
C27_Witness ==
    /\ mainpc = "join"
    /\ width = MaxWidth
    /\ height = MaxHeight
    /\ writes[width * height] # <<>>
    /\ frameBuffer[width * height] # pre.frameBuffer[width * height]

----------------------------------------------------------------------------
(* C28: for a fixed scene, fixed settings and a fixed image size, the      *)
(* frame buffer at the return of trace() is the same for every             *)
(* interleaving of the workers and every number of workers: pixel (x, y)   *)
(* holds traceRay of its primary ray at maxDepth, and with an empty object *)
(* or light list the frame buffer is the one trace() was called with.      *)
C28_ImageIndependentOfSchedule ==
    Returned =>
        IF NonEmptyScene
        THEN \A x \in 0 .. width - 1, y \in 0 .. height - 1 :
                frameBuffer[y * width + x + 1] = traceRay(PrimaryRay(x, y), maxDepth)
        ELSE frameBuffer = pre.frameBuffer

(* trace() has returned from two workers that each wrote a row of the      *)
(* largest image, whose colours came from recursive calls                  *)
C28_Witness ==
    /\ Returned
    /\ NonEmptyScene
    /\ Len(threads) = 2
    /\ width = MaxWidth
    /\ height = MaxHeight
    /\ writes[1] = <<1>>
    /\ writes[width * height] = <<2>>
    /\ maxDepth = MaxDepthIn
    /\ \E k \in DOMAIN frameBuffer : frameBuffer[k] \notin {Black, Background}

----------------------------------------------------------------------------
(* C29: the displayed texture is never stale.  Whenever render() draws the *)
(* quad, the dirty flag is false and the texture holds the frame buffer's  *)
(* contents; in every state with the flag false the texture holds them, so *)
(* that an updateFramebuffer() call with no change in between uploads      *)
(* nothing and leaves the flag false.                                      *)
C29_TextureNeverStale ==
    /\ [](~framebufferDirty => texture.uploaded)
    /\ [][render => (~framebufferDirty' /\ texture'.uploaded)]_vars
    /\ [][(render /\ ~framebufferDirty) => UNCHANGED <<texture, framebufferDirty>>]_vars

(* render() has drawn an image that trace() wrote: the flag is false and   *)
(* the texture holds the frame buffer, which is no longer the constructor's*)
C29_Witness ==
    /\ Idle
    /\ ~framebufferDirty
    /\ texture.uploaded
    /\ \E k \in DOMAIN frameBuffer : frameBuffer[k] \notin {Black, Background}

====
